---- MODULE Spec2Model ----
(***************************************************************************)
(* PUNCHCARD (src/PUNCHCARD.c): a terminal program that reads lines of     *)
(* comma-separated "start-end" 12-hour times from stdin, sums the elapsed  *)
(* time of the pairs of a line and prints the total, actual and rounded to *)
(* the quarter-hour.                                                       *)
(*                                                                         *)
(* stdin is a character stream.  buf holds the characters typed and not    *)
(* yet consumed; closed says that end-of-input follows them.  A read that  *)
(* runs off the end of buf while the stream is open blocks until the       *)
(* environment types another line or closes the stream.  Characters are    *)
(* one-character strings.                                                  *)
(*                                                                         *)
(* scanf_s is modelled with the conversion semantics of scanf for the      *)
(* format " %d : %d %c" (the call passes no size for %c; the model takes   *)
(* the character to be stored as scanf stores it): a receiving variable    *)
(* that no conversion assigned keeps the indeterminate value of an         *)
(* uninitialized local, which the model draws from IndetInt / IndetChar.   *)
(***************************************************************************)
EXTENDS Integers, Sequences, FiniteSets, TLC

VARIABLES
    buf,               \* stdin: characters typed and not yet consumed
    closed,            \* stdin: end-of-input follows buf
    pc,                \* position of the program
    continueRunning,   \* main: loop flag
    totalHours,        \* main: total hours worked this day
    totalMinutes,      \* main: total minutes worked this day
    endFound,          \* readTimesForDay: last result of clearBufferJunk(',')
    ret,               \* readTimesForDay: value being returned to main
    startHour, startMinute, startMeridiem,
    endHour, endMinute, endMeridiem,
    hourDifference, minuteDifference,
    out,               \* stdout: what the last step of the program printed
    lastRead,          \* history: the last readTime call
    h12,               \* history: 12-hour hours of the pair before conversion
    daySum,            \* history: minutes of the pairs added in this session
    typed,             \* history: lines typed for this session
    eofSeen            \* history: some read has hit end-of-input

vars == <<buf, closed, pc, continueRunning, totalHours, totalMinutes,
          endFound, ret, startHour, startMinute, startMeridiem,
          endHour, endMinute, endMeridiem, hourDifference, minuteDifference,
          out, lastRead, h12, daySum, typed, eofSeen>>

(***************************************************************************)
(* Characters and the stream                                               *)
(***************************************************************************)
NL == "\n"

Digits == <<"0", "1", "2", "3", "4", "5", "6", "7", "8", "9">>

IsDigit(c) == \E i \in 1..10 : Digits[i] = c

DigitVal(c) == (CHOOSE i \in 1..10 : Digits[i] = c) - 1

\* isspace() over the characters the model types
IsSpace(c) == c \in {" ", NL}

\* What a read at position p of stream s meets: the character, end-of-input
\* ("EOF") once the stream is closed, or nothing yet ("BLOCK").
Peek(s, p, isClosed) ==
    IF p <= Len(s) THEN s[p] ELSE IF isClosed THEN "EOF" ELSE "BLOCK"

RECURSIVE SkipWs(_, _)
\* First position at or after p that holds no white space.
SkipWs(s, p) ==
    IF p <= Len(s) /\ IsSpace(s[p]) THEN SkipWs(s, p + 1) ELSE p

RECURSIVE DigitsEnd(_, _)
\* First position at or after p that holds no digit.
DigitsEnd(s, p) ==
    IF p <= Len(s) /\ IsDigit(s[p]) THEN DigitsEnd(s, p + 1) ELSE p

RECURSIVE DecValue(_, _, _)
\* Value of the decimal digits s[from..to].
DecValue(s, from, to) ==
    IF to < from THEN 0
    ELSE DecValue(s, from, to - 1) * 10 + DigitVal(s[to])

\* One %d conversion at position p: white space, an optional sign, digits.
\* status "ok" (val, pos after the digits), "fail" (no number; the sign, a
\* prefix of a number, is consumed), "block" (the stream is open and ends
\* before the end of the number is known).
ScanInt(s, p, isClosed) ==
    LET p0 == SkipWs(s, p)
        c0 == Peek(s, p0, isClosed)
        p1 == IF c0 \in {"-", "+"} THEN p0 + 1 ELSE p0
        p2 == DigitsEnd(s, p1)
        c2 == Peek(s, p2, isClosed)
    IN  IF c2 = "BLOCK" THEN [status |-> "block", val |-> 0, pos |-> p2, eof |-> FALSE]
        ELSE IF p2 = p1 THEN [status |-> "fail", val |-> 0, pos |-> p1, eof |-> (c2 = "EOF")]
        ELSE [status |-> "ok",
              val |-> (IF c0 = "-" THEN 0 - DecValue(s, p1, p2 - 1)
                                   ELSE DecValue(s, p1, p2 - 1)),
              pos |-> p2, eof |-> FALSE]

\* scanf(" %d : %d %c", hour, minute, meridiem) at the head of stream s.
\* n is the number of variables assigned (they are assigned in order), pos
\* the first position not consumed.
Scanf(s, isClosed) ==
    LET r1 == ScanInt(s, 1, isClosed)
        q1 == SkipWs(s, r1.pos)
        c1 == Peek(s, q1, isClosed)
        r2 == ScanInt(s, q1 + 1, isClosed)
        q3 == SkipWs(s, r2.pos)
        c3 == Peek(s, q3, isClosed)
        none == [status |-> "done", n |-> 0, pos |-> r1.pos, eof |-> r1.eof,
                 hour |-> 0, minute |-> 0, meridiem |-> "?"]
        blocked == [none EXCEPT !.status = "block"]
    IN  IF r1.status = "block" THEN blocked
        ELSE IF r1.status = "fail" THEN none
        ELSE IF c1 = "BLOCK" THEN blocked
        ELSE IF c1 # ":" THEN
            [none EXCEPT !.n = 1, !.pos = q1, !.eof = (c1 = "EOF"), !.hour = r1.val]
        ELSE IF r2.status = "block" THEN blocked
        ELSE IF r2.status = "fail" THEN
            [none EXCEPT !.n = 1, !.pos = r2.pos, !.eof = r2.eof, !.hour = r1.val]
        ELSE IF c3 = "BLOCK" THEN blocked
        ELSE IF c3 = "EOF" THEN
            [none EXCEPT !.n = 2, !.pos = q3, !.eof = TRUE,
                         !.hour = r1.val, !.minute = r2.val]
        ELSE [none EXCEPT !.n = 3, !.pos = q3 + 1, !.eof = FALSE,
                          !.hour = r1.val, !.minute = r2.val, !.meridiem = c3]

RECURSIVE StopAt(_, _, _)
\* The loop of clearBufferJunk: first position at or after p whose character
\* is the target or a newline, Len(s) + 1 if there is none.
StopAt(s, p, target) ==
    IF p <= Len(s) /\ s[p] # target /\ s[p] # NL THEN StopAt(s, p + 1, target)
    ELSE p

\* clearBufferJunk testing for the target without "target != '\n'".
clearBufferJunkTargetFirst(s, isClosed, target) ==
    LET p == StopAt(s, 1, target)
        lastCharacter == Peek(s, p, isClosed)
    IN  IF lastCharacter = "BLOCK" THEN [status |-> "block", result |-> 2, pos |-> p]
        ELSE [status |-> "done",
              result |-> IF lastCharacter = "EOF" THEN -1
                         ELSE IF lastCharacter = target THEN 0
                         ELSE IF lastCharacter = NL THEN 1
                         ELSE 2,
              pos |-> IF lastCharacter = "EOF" THEN p ELSE p + 1]

\* clearBufferJunk(target) at the head of stream s: the result and the first
\* position not consumed (the stopping character is consumed).
clearBufferJunk(s, isClosed, target) ==
    LET p == StopAt(s, 1, target)
        lastCharacter == Peek(s, p, isClosed)
    IN  IF lastCharacter = "BLOCK" THEN [status |-> "block", result |-> 2, pos |-> p]
        ELSE [status |-> "done",
              result |-> IF lastCharacter = "EOF" THEN -1
                         ELSE IF lastCharacter = target /\ target # NL THEN 0
                         ELSE IF lastCharacter = NL THEN 1
                         ELSE 2,
              pos |-> IF lastCharacter = "EOF" THEN p ELSE p + 1]

\* The stream after the characters before position pos were consumed.
Rest(s, pos) == SubSeq(s, pos, Len(s))

(***************************************************************************)
(* The functions of PUNCHCARD.c                                            *)
(***************************************************************************)
\* The / of C on ints: the quotient truncated toward zero.
CDiv(a, b) ==
    IF (a >= 0) = (b > 0) THEN (IF a >= 0 THEN a ELSE 0 - a) \div (IF b > 0 THEN b ELSE 0 - b)
    ELSE 0 - ((IF a >= 0 THEN a ELSE 0 - a) \div (IF b > 0 THEN b ELSE 0 - b))

\* One printed line; a, b are its numbers and c its character.
Line(text, a, b, c) == [line |-> text, a |-> a, b |-> b, c |-> c]

\* readTime: upper case to lower case.
LowerMeridiem(meridiem) ==
    IF meridiem = "A" THEN "a" ELSE IF meridiem = "P" THEN "p" ELSE meridiem

\* readTime: the condition under which it returns 0.
ValidTime(hour, minute, meridiem) ==
    /\ hour > 0 /\ hour < 13 /\ minute > -1 /\ minute < 60
    /\ (meridiem = "a" \/ meridiem = "p")

\* Diagnostics with the tests chained by else: the first violation alone.
DiagnosticsFirstOnly(hour, minute, meridiem) ==
    IF hour <= 0 THEN <<Line("HOUR TOO SMALL", hour, 0, "")>>
    ELSE IF hour >= 13 THEN <<Line("HOUR TOO BIG", hour, 0, "")>>
    ELSE IF minute <= -1 THEN <<Line("MINUTE TOO SMALL", minute, 0, "")>>
    ELSE IF minute >= 60 THEN <<Line("MINUTE TOO BIG", minute, 0, "")>>
    ELSE IF meridiem # "a" /\ meridiem # "p"
        THEN <<Line("UNRECOGNIZED MERIDIEM", 0, 0, meridiem)>> ELSE <<>>

\* readTime: the messages of the failing branch, in the order printed.
Diagnostics(hour, minute, meridiem) ==
    (IF hour <= 0 THEN <<Line("HOUR TOO SMALL", hour, 0, "")>> ELSE <<>>)
    \o (IF hour >= 13 THEN <<Line("HOUR TOO BIG", hour, 0, "")>> ELSE <<>>)
    \o (IF minute <= -1 THEN <<Line("MINUTE TOO SMALL", minute, 0, "")>> ELSE <<>>)
    \o (IF minute >= 60 THEN <<Line("MINUTE TOO BIG", minute, 0, "")>> ELSE <<>>)
    \o (IF meridiem # "a" /\ meridiem # "p"
        THEN <<Line("UNRECOGNIZED MERIDIEM", 0, 0, meridiem)>> ELSE <<>>)

\* Values an uninitialized int / char local may hold when it is read: one
\* below both valid ranges, two inside both, one above both; a valid and an
\* invalid meridiem letter.
IndetInt == {-1, 5, 7, 60}

IndetChar == {"a", "x"}

\* The values an uninitialized variable may be found to hold when scanf left
\* it alone; nothing to choose when scanf assigned it.
Held(assigned, values) == IF assigned THEN {CHOOSE v \in values : TRUE} ELSE values

\* readTime, sc being the outcome of its scanf.  ih, im, ic are the
\* indeterminate values that *hour, *minute, *meridiem hold before the call;
\* scanf leaves them in the variables it does not assign.  scanned is what
\* *meridiem holds right after the scan.
readTime(sc, ih, im, ic) ==
    LET hour == IF sc.n >= 1 THEN sc.hour ELSE ih
        minute == IF sc.n >= 2 THEN sc.minute ELSE im
        scannedMeridiem == IF sc.n >= 3 THEN sc.meridiem ELSE ic
        meridiem == LowerMeridiem(scannedMeridiem)
        valid == ValidTime(hour, minute, meridiem)
    IN  [status |-> sc.status, pos |-> sc.pos, eof |-> sc.eof, n |-> sc.n,
         hour |-> hour, minute |-> minute, meridiem |-> meridiem,
         scanned |-> scannedMeridiem,
         result |-> IF valid THEN 0 ELSE -1,
         printed |-> IF valid THEN <<>> ELSE Diagnostics(hour, minute, meridiem)]

\* toMilitaryTime without the case of the 12th hour.
toMilitaryTimePlain(hour, meridiem) ==
    IF meridiem = "p" THEN hour + 12 ELSE hour

\* toMilitaryTime leaving the 12th hour as it is.
toMilitaryTimeTwelve(hour, meridiem) ==
    IF hour = 12 THEN hour
    ELSE (IF meridiem = "p" THEN hour + 12 ELSE hour)

\* toMilitaryTime: the hour after the call.
toMilitaryTime(hour, meridiem) ==
    IF hour = 12
    THEN (IF meridiem = "a" THEN hour + 12 ELSE hour)
    ELSE (IF meridiem = "p" THEN hour + 12 ELSE hour)

\* roundTime without the carry of 60 minutes into the hour.
roundTimeNoCarry(hourDiff, minuteDiff) ==
    [hours |-> hourDiff, minutes |-> CDiv(minuteDiff + 7, 15) * 15]

\* roundTime rounding down.
roundTimeDown(hourDiff, minuteDiff) ==
    [hours |-> hourDiff, minutes |-> CDiv(minuteDiff, 15) * 15]

\* roundTime: hours and minutes after the call.
roundTime(hourDiff, minuteDiff) ==
    LET rounded == CDiv(minuteDiff + 7, 15) * 15
    IN  IF rounded = 60 THEN [hours |-> hourDiff + 1, minutes |-> 0]
        ELSE [hours |-> hourDiff, minutes |-> rounded]

\* Difference without the 24 hours added to a negative hour.
DifferenceNoWrap(sHour, sMinute, eHour, eMinute) ==
    LET h0 == eHour - sHour
        m0 == eMinute - sMinute
    IN  [hours |-> IF m0 < 0 THEN h0 - 1 ELSE h0,
         minutes |-> IF m0 < 0 THEN m0 + 60 ELSE m0]

\* readTimesForDay: the difference of two 24-hour times.
Difference(sHour, sMinute, eHour, eMinute) ==
    LET h0 == eHour - sHour
        m0 == eMinute - sMinute
        h1 == IF m0 < 0 THEN h0 - 1 ELSE h0
        m1 == IF m0 < 0 THEN m0 + 60 ELSE m0
        h2 == IF h1 < 0 THEN h1 + 24 ELSE h1
    IN  [hours |-> h2, minutes |-> m1]

\* AddToTotal without the carry of 60 minutes into the hour.
AddToTotalNoCarry(tHours, tMinutes, dHours, dMinutes) ==
    [hours |-> tHours + dHours, minutes |-> tMinutes + dMinutes]

\* readTimesForDay: the totals after a difference was added.
AddToTotal(tHours, tMinutes, dHours, dMinutes) ==
    LET m0 == tMinutes + dMinutes
        h0 == tHours + dHours
    IN  IF m0 >= 60 THEN [hours |-> h0 + 1, minutes |-> m0 - 60]
        ELSE [hours |-> h0, minutes |-> m0]

\* main: roundedTime as "%0.2f" prints it, in hundredths of an hour
\* (minutes / 60 + hours, rounded to two decimals).
roundedTime(tHours, tMinutes) ==
    tHours * 100 + CDiv(tMinutes * 200 + 60, 120)

(***************************************************************************)
(* What the user types                                                     *)
(***************************************************************************)
\* Decimal text of n, |n| <= 99.
FmtInt(n) ==
    LET a == IF n < 0 THEN 0 - n ELSE n
        d == IF a < 10 THEN <<Digits[a + 1]>>
             ELSE <<Digits[(a \div 10) + 1], Digits[(a % 10) + 1]>>
    IN  IF n < 0 THEN <<"-">> \o d ELSE d

\* The text "H:MMcm" of a time t = <<hour, minute, letter>>.
Token(t) ==
    FmtInt(t[1]) \o <<":">>
    \o (IF t[2] >= 0 /\ t[2] < 10 THEN <<"0">> ELSE <<>>) \o FmtInt(t[2])
    \o <<t[3], "m">>

\* The text "start-end" of a pair.
PairText(t1, t2) == Token(t1) \o <<"-">> \o Token(t2)

\* Times typed in the interactive lines: valid ones, among them both 12
\* o'clocks and an upper-case meridiem, and one for each way to be invalid.
TypedTimes ==
    { <<9, 0, "a">>, <<12, 1, "a">>, <<1, 0, "p">>, <<1, 0, "P">>,
      <<11, 59, "p">>,
      <<13, 0, "p">>, <<0, 5, "a">>, <<9, 60, "a">>, <<9, -5, "a">>,
      <<9, 0, "x">>, <<-1, 60, "x">> }

\* Second pairs of the lines that hold two pairs: one that carries minutes
\* into the hour, the sentinel, and one with an invalid time on either side.
SecondPairs ==
    { PairText(<<10, 20, "a">>, <<11, 5, "a">>),
      PairText(<<1, 0, "p">>, <<1, 0, "p">>),
      PairText(<<13, 0, "p">>, <<2, 0, "p">>),
      PairText(<<1, 0, "p">>, <<2, 60, "p">>) }

\* First pairs of the lines that hold two pairs.
FirstPairs ==
    { PairText(<<9, 0, "a">>, <<10, 40, "a">>),
      PairText(<<8, 0, "p">>, <<7, 59, "p">>) }

\* Lines that are not a list of pairs.
OddLines ==
    { <<>>,
      <<"a", "b", "c">>,
      Token(<<9, 0, "a">>),
      <<"9", ":", "0", "0">>,
      <<"9">>,
      Token(<<9, 0, "a">>) \o <<" ">> \o Token(<<5, 0, "p">>),
      PairText(<<9, 0, "a">>, <<5, 0, "p">>) \o <<",">>,
      PairText(<<9, 0, "a">>, <<1, 0, "p">>) \o <<",", " ">>
        \o PairText(<<2, 0, "p">>, <<4, 30, "p">>) \o <<",", " ">>
        \o PairText(<<6, 10, "p">>, <<9, 20, "p">>),
      <<" ">> \o PairText(<<9, 10, "a">>, <<5, 12, "p">>) \o <<" ", "x">> }

\* Lines of valid pairs alone: one pair whose minutes round down, two pairs
\* whose sum is a multiple of a quarter-hour, and two pairs whose sum rounds
\* up although each of them rounds down.
PairLines ==
    { PairText(<<9, 10, "a">>, <<5, 12, "p">>),
      PairText(<<9, 0, "a">>, <<1, 0, "p">>) \o <<",", " ">>
        \o PairText(<<2, 0, "p">>, <<4, 30, "p">>),
      PairText(<<9, 0, "a">>, <<10, 5, "a">>) \o <<",", " ">>
        \o PairText(<<1, 0, "p">>, <<2, 5, "p">>) }

\* The lines the user may type at the terminal, without their newline.
Lines ==
    { PairText(t1, t2) : t1 \in TypedTimes, t2 \in TypedTimes }
    \cup { p1 \o <<",", " ">> \o p2 : p1 \in FirstPairs, p2 \in SecondPairs }
    \cup PairLines
    \cup OddLines

\* What the user may type before ending the input: a line left unfinished.
LastLines ==
    { <<>>,
      PairText(<<9, 0, "a">>, <<5, 0, "p">>),
      PairText(<<9, 0, "a">>, <<5, 0, "p">>) \o <<",">>,
      Token(<<9, 0, "a">>) \o <<"-">>,
      Token(<<9, 0, "a">>),
      <<"9", ":", "0", "0">>,
      <<"9", ":">>,
      PairText(<<1, 0, "p">>, <<1, 0, "p">>),
      PairText(<<13, 0, "p">>, <<2, 0, "p">>) }

\* Lines the user types for one day session, at most.
MaxLinesPerDay == 2

\* Minutes of the times of the pairs that are piped in.
PipedMinutes == {0, 1, 30, 59}

PipedTimes == (1..12) \X PipedMinutes \X {"a", "p"}

\* A single pair already waiting on stdin when the program starts: every
\* pair of PipedTimes, and 12:00am with every valid end time.
PipedPairs ==
    { PairText(t1, t2) : t1 \in PipedTimes, t2 \in PipedTimes }
    \cup { PairText(<<12, 0, "a">>, t2) : t2 \in (1..12) \X (0..59) \X {"a", "p"} }

\* Two lines already waiting on stdin when the program starts: a line with
\* a time that fails, at its start, at its end or in its second pair, and
\* the line of the next day.
PipedFiles ==
    { l \o <<NL>> \o PairText(<<9, 0, "a">>, <<5, 0, "p">>) \o <<NL>> :
        l \in { <<"a", "b", "c">>,
                PairText(<<13, 0, "p">>, <<2, 0, "p">>) \o <<",", " ">>
                  \o PairText(<<2, 0, "p">>, <<4, 30, "p">>),
                PairText(<<1, 0, "p">>, <<2, 60, "p">>),
                PairText(<<9, 0, "a">>, <<10, 40, "a">>) \o <<",", " ">>
                  \o PairText(<<1, 0, "x">>, <<2, 0, "p">>) } }

(***************************************************************************)
(* The program                                                             *)
(***************************************************************************)
NoRead == [which |-> "none", n |-> 0, hour |-> 0, minute |-> 0,
           scanned |-> "?", meridiem |-> "?", result |-> 0]

\* The locals of an iteration of readTimesForDay's loop, not yet assigned:
\* these placeholders are never read, an unassigned variable is read through
\* IndetInt / IndetChar.
FreshLocals ==
    /\ startHour' = 0 /\ startMinute' = 0 /\ startMeridiem' = "?"
    /\ endHour' = 0 /\ endMinute' = 0 /\ endMeridiem' = "?"
    /\ hourDifference' = 0 /\ minuteDifference' = 0
    /\ lastRead' = NoRead
    /\ h12' = <<0, 0>>

locals == <<startHour, startMinute, startMeridiem, endHour, endMinute,
            endMeridiem, hourDifference, minuteDifference, lastRead, h12>>

Init ==
    /\ \/ buf = <<>> /\ typed = 0
       \/ \E p \in PipedPairs : buf = p \o <<NL>> /\ typed = 1
       \/ \E f \in PipedFiles : buf = f /\ typed = 2
    /\ closed = FALSE
    /\ pc = "main"
    /\ continueRunning = 1
    /\ totalHours = 0 /\ totalMinutes = 0
    /\ endFound = 0 /\ ret = 0
    /\ startHour = 0 /\ startMinute = 0 /\ startMeridiem = "?"
    /\ endHour = 0 /\ endMinute = 0 /\ endMeridiem = "?"
    /\ hourDifference = 0 /\ minuteDifference = 0
    /\ out = <<Line("Welcome to PUNCHCARD!", 0, 0, "")>>
    /\ lastRead = NoRead
    /\ h12 = <<0, 0>>
    /\ daySum = 0
    /\ eofSeen = FALSE

\* main: the prompt.
Prompt == Line("Enter your times for today separated by commas:", 0, 0, "")

\* DayTotals with the totals declared outside the loop: not set anew.
DayTotalsKept == [hours |-> totalHours, minutes |-> totalMinutes]

\* main: the initializers of totalHours and totalMinutes in the loop body.
DayTotals == [hours |-> 0, minutes |-> 0]

\* main: the test of while (continueRunning), the declarations of the body,
\* the prompt and the call of readTimesForDay up to its loop.
MainLoop ==
    /\ pc = "main"
    /\ IF continueRunning # 0
       THEN /\ totalHours' = DayTotals.hours
            /\ totalMinutes' = DayTotals.minutes
            /\ out' = <<Prompt>>
            /\ endFound' = 0
            /\ daySum' = 0
            /\ typed' = (IF buf = <<>> THEN 0 ELSE 1)
            /\ pc' = "dayLoop"
       ELSE /\ pc' = "done"
            /\ out' = <<>>
            /\ UNCHANGED <<totalHours, totalMinutes, endFound, daySum, typed>>
    /\ FreshLocals
    /\ ret' = 0
    /\ UNCHANGED <<buf, closed, continueRunning, eofSeen>>

\* readTimesForDay: the test of its while loop; return 1 when it fails.
DayLoop ==
    /\ pc = "dayLoop"
    /\ IF endFound # 1 /\ endFound # -1
       THEN /\ pc' = "readStart" /\ UNCHANGED ret
       ELSE /\ pc' = "mainRet" /\ ret' = 1
    /\ FreshLocals
    /\ out' = <<>>
    /\ UNCHANGED <<buf, closed, continueRunning, totalHours, totalMinutes,
                   endFound, daySum, typed, eofSeen>>

\* readTimesForDay: readTime of the start time and the test of its result.
ReadStart ==
    /\ pc = "readStart"
    /\ LET sc == Scanf(buf, closed)
       IN  \E ih \in Held(sc.n >= 1, IndetInt), im \in Held(sc.n >= 2, IndetInt),
              ic \in Held(sc.n >= 3, IndetChar) :
         LET r == readTime(sc, ih, im, ic)
         IN  /\ r.status = "done"
             /\ buf' = Rest(buf, r.pos)
             /\ eofSeen' = (eofSeen \/ r.eof)
             /\ startHour' = r.hour
             /\ startMinute' = r.minute
             /\ startMeridiem' = r.meridiem
             /\ lastRead' = [which |-> "start", n |-> r.n, hour |-> r.hour,
                             minute |-> r.minute, scanned |-> r.scanned,
                             meridiem |-> r.meridiem, result |-> r.result]
             /\ IF r.result = -1
                THEN /\ out' = r.printed \o
                         <<Line("Something was wrong with your given start time!", 0, 0, "")>>
                     /\ pc' = "abort"
                ELSE /\ out' = r.printed
                     /\ pc' = "skipDash"
    /\ UNCHANGED <<closed, continueRunning, totalHours, totalMinutes, endFound,
                   ret, endHour, endMinute, endMeridiem, hourDifference,
                   minuteDifference, h12, daySum, typed>>

\* Abort without the call of clearBufferJunk.
AbortNoClear ==
    /\ pc = "abort"
    /\ ret' = -1
    /\ pc' = "mainRet"
    /\ out' = <<>>
    /\ UNCHANGED <<buf, closed, continueRunning, totalHours, totalMinutes,
                   endFound, daySum, typed, eofSeen>>
    /\ UNCHANGED locals

\* readTimesForDay: clearBufferJunk('\n'); return -1, after a failed readTime.
Abort ==
    /\ pc = "abort"
    /\ LET cb == clearBufferJunk(buf, closed, NL)
       IN  /\ cb.status = "done"
           /\ buf' = Rest(buf, cb.pos)
           /\ eofSeen' = (eofSeen \/ cb.result = -1)
    /\ ret' = -1
    /\ pc' = "mainRet"
    /\ out' = <<>>
    /\ UNCHANGED <<closed, continueRunning, totalHours, totalMinutes, endFound,
                   daySum, typed>>
    /\ UNCHANGED locals

\* readTimesForDay: clearBufferJunk('-'), its result not looked at.
SkipDash ==
    /\ pc = "skipDash"
    /\ LET cb == clearBufferJunk(buf, closed, "-")
       IN  /\ cb.status = "done"
           /\ buf' = Rest(buf, cb.pos)
           /\ eofSeen' = (eofSeen \/ cb.result = -1)
    /\ pc' = "readEnd"
    /\ out' = <<>>
    /\ UNCHANGED <<closed, continueRunning, totalHours, totalMinutes, endFound,
                   ret, daySum, typed>>
    /\ UNCHANGED locals

\* readTimesForDay: readTime of the end time and the test of its result.
ReadEnd ==
    /\ pc = "readEnd"
    /\ LET sc == Scanf(buf, closed)
       IN  \E ih \in Held(sc.n >= 1, IndetInt), im \in Held(sc.n >= 2, IndetInt),
              ic \in Held(sc.n >= 3, IndetChar) :
         LET r == readTime(sc, ih, im, ic)
         IN  /\ r.status = "done"
             /\ buf' = Rest(buf, r.pos)
             /\ eofSeen' = (eofSeen \/ r.eof)
             /\ endHour' = r.hour
             /\ endMinute' = r.minute
             /\ endMeridiem' = r.meridiem
             /\ lastRead' = [which |-> "end", n |-> r.n, hour |-> r.hour,
                             minute |-> r.minute, scanned |-> r.scanned,
                             meridiem |-> r.meridiem, result |-> r.result]
             /\ IF r.result = -1
                THEN /\ out' = r.printed \o
                         <<Line("Something was wrong with your given end time!", 0, 0, "")>>
                     /\ pc' = "abort"
                ELSE /\ out' = r.printed
                     /\ pc' = "compare"
    /\ UNCHANGED <<closed, continueRunning, totalHours, totalMinutes, endFound,
                   ret, startHour, startMinute, startMeridiem, hourDifference,
                   minuteDifference, h12, daySum, typed>>

\* Identical with the start minute compared to the end hour.
IdenticalMixed ==
    startHour = endHour /\ startMinute = endHour /\ startMeridiem = endMeridiem

\* Identical with != in place of == between the meridiems.
IdenticalMeridiemDiffers ==
    startHour = endHour /\ startMinute = endMinute /\ startMeridiem # endMeridiem

\* readTimesForDay: the condition of "start time and end time are identical".
Identical ==
    startHour = endHour /\ startMinute = endMinute /\ startMeridiem = endMeridiem

\* readTimesForDay: the echo of the pair and the test for identical times;
\* return 0 when they are.
Compare ==
    /\ pc = "compare"
    /\ out' = <<Line("START", startHour, startMinute, startMeridiem),
                Line("END", endHour, endMinute, endMeridiem)>>
    /\ IF Identical
       THEN /\ ret' = 0 /\ pc' = "mainRet"
       ELSE /\ pc' = "convert" /\ UNCHANGED ret
    /\ UNCHANGED <<buf, closed, continueRunning, totalHours, totalMinutes,
                   endFound, daySum, typed, eofSeen>>
    /\ UNCHANGED locals

\* readTimesForDay: both times to 24-hour time.
Convert ==
    /\ pc = "convert"
    /\ startHour' = toMilitaryTime(startHour, startMeridiem)
    /\ endHour' = toMilitaryTime(endHour, endMeridiem)
    /\ h12' = <<startHour, endHour>>
    /\ pc' = "accumulate"
    /\ out' = <<>>
    /\ UNCHANGED <<buf, closed, continueRunning, totalHours, totalMinutes,
                   endFound, ret, startMinute, startMeridiem, endMinute,
                   endMeridiem, hourDifference, minuteDifference, lastRead,
                   daySum, typed, eofSeen>>

\* Accumulate adding each difference rounded to the quarter-hour, as the
\* program did when it read a single pair per prompt.
AccumulateRounded ==
    /\ pc = "accumulate"
    /\ LET d == Difference(startHour, startMinute, endHour, endMinute)
           r == roundTime(d.hours, d.minutes)
           t == AddToTotal(totalHours, totalMinutes, r.hours, r.minutes)
       IN  /\ hourDifference' = d.hours
           /\ minuteDifference' = d.minutes
           /\ totalHours' = t.hours
           /\ totalMinutes' = t.minutes
           /\ daySum' = daySum + d.hours * 60 + d.minutes
           /\ out' = <<Line("ACTUAL TIME", d.hours, d.minutes, "")>>
    /\ pc' = "skipComma"
    /\ UNCHANGED <<buf, closed, continueRunning, endFound, ret, startHour,
                   startMinute, startMeridiem, endHour, endMinute, endMeridiem,
                   lastRead, h12, typed, eofSeen>>

\* readTimesForDay: the difference, its addition to the totals, its display.
Accumulate ==
    /\ pc = "accumulate"
    /\ LET d == Difference(startHour, startMinute, endHour, endMinute)
           t == AddToTotal(totalHours, totalMinutes, d.hours, d.minutes)
       IN  /\ hourDifference' = d.hours
           /\ minuteDifference' = d.minutes
           /\ totalHours' = t.hours
           /\ totalMinutes' = t.minutes
           /\ daySum' = daySum + d.hours * 60 + d.minutes
           /\ out' = <<Line("ACTUAL TIME", d.hours, d.minutes, "")>>
    /\ pc' = "skipComma"
    /\ UNCHANGED <<buf, closed, continueRunning, endFound, ret, startHour,
                   startMinute, startMeridiem, endHour, endMinute, endMeridiem,
                   lastRead, h12, typed, eofSeen>>

\* readTimesForDay: endFound = clearBufferJunk(',').
SkipComma ==
    /\ pc = "skipComma"
    /\ LET cb == clearBufferJunk(buf, closed, ",")
       IN  /\ cb.status = "done"
           /\ buf' = Rest(buf, cb.pos)
           /\ eofSeen' = (eofSeen \/ cb.result = -1)
           /\ endFound' = cb.result
    /\ pc' = "dayLoop"
    /\ out' = <<>>
    /\ UNCHANGED <<closed, continueRunning, totalHours, totalMinutes, ret,
                   daySum, typed>>
    /\ UNCHANGED locals

\* MainRet leaving the loop after a -1 (break) in place of continue.
MainRetBreak ==
    /\ pc = "mainRet"
    /\ IF ret = -1
       THEN /\ continueRunning' = 1
            /\ out' = <<>>
            /\ pc' = "done"
            /\ UNCHANGED <<totalHours, totalMinutes>>
       ELSE /\ continueRunning' = ret
            /\ pc' = "main"
            /\ LET r == roundTime(totalHours, totalMinutes)
               IN  /\ totalHours' = r.hours
                   /\ totalMinutes' = r.minutes
                   /\ out' = <<Line("ACTUAL TOTAL TIME", totalHours, totalMinutes, ""),
                               Line("ROUNDED TOTAL TIME", roundedTime(r.hours, r.minutes), 0, "")>>
    /\ UNCHANGED <<buf, closed, endFound, ret, daySum, typed, eofSeen>>
    /\ UNCHANGED locals

\* main: what follows the call of readTimesForDay in the loop body.
MainRet ==
    /\ pc = "mainRet"
    /\ IF ret = -1
       THEN /\ continueRunning' = 1
            /\ out' = <<>>
            /\ UNCHANGED <<totalHours, totalMinutes>>
       ELSE /\ continueRunning' = ret
            /\ LET r == roundTime(totalHours, totalMinutes)
               IN  /\ totalHours' = r.hours
                   /\ totalMinutes' = r.minutes
                   /\ out' = <<Line("ACTUAL TOTAL TIME", totalHours, totalMinutes, ""),
                               Line("ROUNDED TOTAL TIME", roundedTime(r.hours, r.minutes), 0, "")>>
    /\ pc' = "main"
    /\ UNCHANGED <<buf, closed, endFound, ret, daySum, typed, eofSeen>>
    /\ UNCHANGED locals

\* The program waits in a read for more input.
NeedInput ==
    \/ pc \in {"readStart", "readEnd"} /\ Scanf(buf, closed).status = "block"
    \/ pc = "skipDash" /\ clearBufferJunk(buf, closed, "-").status = "block"
    \/ pc = "skipComma" /\ clearBufferJunk(buf, closed, ",").status = "block"
    \/ pc = "abort" /\ clearBufferJunk(buf, closed, NL).status = "block"

RECURSIVE TrimWs(_)
\* s without the white space at its end.
TrimWs(s) ==
    IF Len(s) > 0 /\ IsSpace(s[Len(s)]) THEN TrimWs(SubSeq(s, 1, Len(s) - 1))
    ELSE s

\* What a scanf that waits for input has left of s: it has run through all
\* of s and is skipping white space, so the white space at the end of s is
\* consumed and stands for no more than one separator.
Pending(s) == IF TrimWs(s) = s THEN s ELSE TrimWs(s) \o <<NL>>

\* The user types a line and its newline.
TypeLine ==
    /\ NeedInput
    /\ typed < MaxLinesPerDay
    /\ \E l \in Lines : buf' = Pending(buf) \o l \o <<NL>>
    /\ typed' = typed + 1
    /\ UNCHANGED <<closed, pc, continueRunning, totalHours, totalMinutes,
                   endFound, ret, out, daySum, eofSeen>>
    /\ UNCHANGED locals

\* The user ends the input, at once or after an unfinished line.
TypeEnd ==
    /\ NeedInput
    /\ \E l \in LastLines : buf' = Pending(buf) \o l
    /\ closed' = TRUE
    /\ UNCHANGED <<pc, continueRunning, totalHours, totalMinutes,
                   endFound, ret, out, daySum, typed, eofSeen>>
    /\ UNCHANGED locals

Program ==
    \/ MainLoop \/ DayLoop \/ ReadStart \/ Abort \/ SkipDash \/ ReadEnd
    \/ Compare \/ Convert \/ Accumulate \/ SkipComma \/ MainRet

Next == Program \/ TypeLine \/ TypeEnd

Spec == Init /\ [][Next]_vars

\* The program runs whenever it can; the user need not type.
FairSpec == Spec /\ WF_vars(Program)

(***************************************************************************)
(* Properties                                                              *)
(***************************************************************************)
\* The lines of out whose text is t.
Printed(t) == { i \in 1..Len(out) : out[i].line = t }

\* main has just printed the totals of a day.
TotalShown == pc = "main" /\ Printed("ACTUAL TOTAL TIME") # {}

\* The pair just read is the sentinel: Compare is about to look at it.
SentinelRead ==
    /\ pc = "compare"
    /\ startHour = endHour /\ startMinute = endMinute
    /\ startMeridiem = endMeridiem

\* The session has returned 0 and main is ending.
Stopping ==
    \/ pc = "mainRet" /\ ret = 0
    \/ pc = "main" /\ continueRunning = 0
    \/ pc = "done"

\* Steps that main, once the session has returned 0, is away from its end.
StepsToEnd == IF pc = "mainRet" THEN 2 ELSE IF pc = "main" THEN 1 ELSE 0

\* C1: when the pair just read has identical start and end, readTimesForDay
\* returns 0 at that pair whatever the session has accumulated before; from
\* then on not one more character of input is consumed, the program can
\* always take its next step until it has ended, and each step brings it
\* closer to its end: it terminates.
C1_SentinelStops ==
    /\ [][SentinelRead => (pc' = "mainRet" /\ ret' = 0 /\ buf' = buf)]_vars
    /\ [][Stopping => (Stopping' /\ StepsToEnd' < StepsToEnd /\ buf' = buf)]_vars
    /\ [](Stopping => (pc = "done" \/ ENABLED Program))

\* C1 witness: the program has ended on a sentinel read after another pair
\* of the same line was accumulated.
C1_Witness ==
    /\ pc = "done" /\ continueRunning = 0 /\ daySum > 0

\* C2: once a read has hit end-of-input the program issues no new prompt.
C2_EofEndsProgram ==
    eofSeen => ~(pc = "dayLoop" /\ out = <<Prompt>>)

\* C3: a day session starts with totals 0; a session that returned -1 shows
\* no day total; a day total that is shown is the sum of the pairs added in
\* that session alone.
C3_AbortDiscardsDay ==
    /\ (pc = "dayLoop" /\ out = <<Prompt>>) => (totalHours = 0 /\ totalMinutes = 0)
    /\ (pc = "main" /\ ret = -1) => out = <<>>
    /\ TotalShown =>
         \A i \in Printed("ACTUAL TOTAL TIME") : out[i].a * 60 + out[i].b = daySum

\* C3 witness: a session that had added a pair has returned -1 and main has
\* gone back to the head of its loop without printing.
C3_Witness ==
    pc = "main" /\ ret = -1 /\ daySum > 0 /\ continueRunning = 1

\* C4: readTime returns 0 exactly when scanf has scanned an hour in 1..12,
\* a minute in 0..59 and a letter among a, p, A, P; then the letter is held
\* in lower case; otherwise the caller goes on to return -1.
C4_ParseAcceptance ==
    lastRead.which # "none" =>
        /\ (lastRead.result = 0) <=>
               /\ lastRead.n = 3
               /\ lastRead.hour \in 1..12
               /\ lastRead.minute \in 0..59
               /\ lastRead.scanned \in {"a", "p", "A", "P"}
        /\ lastRead.result = 0 =>
               lastRead.meridiem = (IF lastRead.scanned \in {"a", "A"} THEN "a" ELSE "p")
        /\ lastRead.result = -1 => pc \in {"abort", "mainRet", "main"}

\* The constraints that the values readTime has tested violate.
Violated ==
    { d \in {"HOUR TOO SMALL", "HOUR TOO BIG", "MINUTE TOO SMALL",
             "MINUTE TOO BIG", "UNRECOGNIZED MERIDIEM"} :
        \/ d = "HOUR TOO SMALL" /\ lastRead.hour <= 0
        \/ d = "HOUR TOO BIG" /\ lastRead.hour >= 13
        \/ d = "MINUTE TOO SMALL" /\ lastRead.minute <= -1
        \/ d = "MINUTE TOO BIG" /\ lastRead.minute >= 60
        \/ d = "UNRECOGNIZED MERIDIEM" /\ lastRead.meridiem \notin {"a", "p"} }

\* The diagnostics among the lines just printed.
Diagnosed ==
    { out[i].line : i \in { j \in 1..Len(out) : out[j].line \notin
        {"Something was wrong with your given start time!",
         "Something was wrong with your given end time!"} } }

\* C5: when readTime has failed, the diagnostics it printed are exactly the
\* violated constraints, each once, and there is at least one.
C5_CompleteDiagnostics ==
    pc = "abort" =>
        /\ Diagnosed = Violated
        /\ Len(out) = Cardinality(Violated) + 1
        /\ Violated # {}

\* C5 witness: a failed readTime with three constraints violated at once.
C5_Witness ==
    pc = "abort" /\ Cardinality(Violated) = 3 /\ lastRead.n = 3

\* The pair has been converted by toMilitaryTime.
Converted == pc = "accumulate"

\* C6 as claimed: the converted times lie in 0..1439 and 12:MM AM is MM.
C6_LinearRange ==
    Converted =>
        /\ startHour * 60 + startMinute \in 0..1439
        /\ endHour * 60 + endMinute \in 0..1439
        /\ (h12[1] = 12 /\ startMeridiem = "a") => startHour * 60 + startMinute = startMinute
        /\ (h12[2] = 12 /\ endMeridiem = "a") => endHour * 60 + endMinute = endMinute

\* The converted time that C6 as amended gives a 12-hour time.
Linear24(hour, minute, meridiem) ==
    IF hour = 12 THEN (IF meridiem = "a" THEN 1440 + minute ELSE 720 + minute)
    ELSE hour * 60 + (IF meridiem = "p" THEN 720 ELSE 0) + minute

\* C6 amended: the converted times lie in 60..1499; 12:MM AM is 1440 + MM
\* (24:MM), 12:MM PM is 720 + MM, any other hour is hour * 60 (+ 720 if PM)
\* + MM.
C6_LinearRangeAmended ==
    Converted =>
        /\ startHour * 60 + startMinute \in 60..1499
        /\ endHour * 60 + endMinute \in 60..1499
        /\ startHour * 60 + startMinute = Linear24(h12[1], startMinute, startMeridiem)
        /\ endHour * 60 + endMinute = Linear24(h12[2], endMinute, endMeridiem)

\* C6 witness: 12:MM AM has been converted, and so has 12:MM PM.
C6_Witness ==
    Converted /\ h12[1] = 12 /\ startMeridiem = "a" /\ h12[2] = 12 /\ endMeridiem = "p"

\* C7: two times that are equal after the conversion were equal before it.
C7_ConversionInjective ==
    Converted =>
        ((startHour = endHour /\ startMinute = endMinute) =>
            (h12[1] = h12[2] /\ startMeridiem = endMeridiem))

\* C7 witness: two times that differ in the meridiem alone were converted.
C7_Witness ==
    Converted /\ h12[1] = h12[2] /\ startMinute = endMinute
    /\ startMeridiem # endMeridiem /\ h12[1] = 12

\* Minutes since midnight of a 12-hour time.
RefLinear(hour, minute, meridiem) ==
    (hour % 12) * 60 + (IF meridiem = "p" THEN 720 ELSE 0) + minute

\* C8: the difference of a pair is (end - start) mod 1440 in hours and
\* minutes, the hours in 0..23 and the minutes in 0..59.
C8_ElapsedWraps ==
    pc = "skipComma" =>
        LET d == (RefLinear(h12[2], endMinute, endMeridiem)
                  - RefLinear(h12[1], startMinute, startMeridiem)) % 1440
        IN  /\ hourDifference = d \div 60
            /\ minuteDifference = d % 60
            /\ hourDifference \in 0..23
            /\ minuteDifference \in 0..59

\* C8 witness: 11:59 PM to 12:01 AM has given 0 hours 2 minutes.
C8_Witness ==
    /\ pc = "skipComma"
    /\ h12 = <<11, 12>> /\ startMinute = 59 /\ startMeridiem = "p"
    /\ endMinute = 1 /\ endMeridiem = "a"
    /\ hourDifference = 0 /\ minuteDifference = 2

\* The quarter-hour that the rounding table gives a minute of 0..59; 60
\* stands for the carry into the hour.
Quarter(m) ==
    IF m <= 7 THEN 0 ELSE IF m <= 22 THEN 15 ELSE IF m <= 37 THEN 30
    ELSE IF m <= 52 THEN 45 ELSE 60

\* C9: roundTime maps the minutes 0..7 to 0, 8..22 to 15, 23..37 to 30,
\* 38..52 to 45 and 53..59 to 0 with one more hour; the hours are unchanged
\* otherwise.
C9_RoundingRule ==
    TotalShown =>
        \A i \in Printed("ACTUAL TOTAL TIME") :
            /\ out[i].b \in 0..59
            /\ totalMinutes \in {0, 15, 30, 45}
            /\ totalMinutes = Quarter(out[i].b) % 60
            /\ totalHours = out[i].a + (IF Quarter(out[i].b) = 60 THEN 1 ELSE 0)

\* C9 witness: a total of 53 minutes or more was rounded up into the hour.
C9_Witness ==
    TotalShown /\ \E i \in Printed("ACTUAL TOTAL TIME") : out[i].b >= 53 /\ out[i].a > 0

\* C10: the rounded total is a multiple of 15 minutes at most 7 minutes from
\* the actual total.
C10_NearestQuarter ==
    TotalShown =>
        \A i \in Printed("ACTUAL TOTAL TIME") :
            LET actual == out[i].a * 60 + out[i].b
                rounded == totalHours * 60 + totalMinutes
            IN  /\ rounded % 15 = 0
                /\ rounded - actual \in -7..7

\* C10 witness: a total was rounded by the full 7 minutes, down and up.
C10_Witness ==
    TotalShown /\ \E i \in Printed("ACTUAL TOTAL TIME") :
        out[i].b = 8 /\ totalMinutes = 15

\* The session is running: main has called readTimesForDay and has not yet
\* rounded the totals it gets back.
InSession == pc \notin {"main", "done"}

\* C11: while a day session runs, and so after each pair it has added,
\* totalMinutes is in 0..59 and totalHours * 60 + totalMinutes is the sum in
\* minutes of the differences of the pairs added in this session; a pair adds
\* its difference to that sum and one carry is enough.
C11_AccumulatorInvariant ==
    /\ [](InSession =>
            /\ totalMinutes \in 0..59
            /\ totalHours >= 0
            /\ totalHours * 60 + totalMinutes = daySum)
    /\ [][pc = "accumulate" =>
            /\ totalHours' * 60 + totalMinutes'
                 = totalHours * 60 + totalMinutes
                   + hourDifference' * 60 + minuteDifference'
            /\ totalMinutes' \in 0..59]_vars

\* C11 witness: 0 hours 45 minutes were added to 1 hour 40 minutes, with a
\* carry: 2 hours 25 minutes.
C11_Witness ==
    /\ pc = "skipComma"
    /\ hourDifference = 0 /\ minuteDifference = 45
    /\ totalHours = 2 /\ totalMinutes = 25 /\ daySum = 145

\* Minutes m rounded to the nearest quarter-hour, in hundredths of an hour.
QuarterHundredths(m) ==
    LET q == ((m + 7) \div 15) * 15
    IN  (q \div 60) * 100 + ((q % 60) \div 15) * 25

\* C12: when a session has read all the pairs of its input (it returned 1),
\* main shows as actual total the exact sum of the differences of the pairs
\* and as rounded total that sum rounded to the nearest quarter-hour, in
\* hours with a fraction of .00, .25, .50 or .75.
C12_SumThenRound ==
    (TotalShown /\ ret = 1) =>
        /\ Cardinality(Printed("ACTUAL TOTAL TIME")) = 1
        /\ Cardinality(Printed("ROUNDED TOTAL TIME")) = 1
        /\ \A i \in Printed("ACTUAL TOTAL TIME") :
              out[i].a * 60 + out[i].b = daySum /\ out[i].b \in 0..59
        /\ \A j \in Printed("ROUNDED TOTAL TIME") :
              /\ out[j].a = QuarterHundredths(daySum)
              /\ out[j].a % 100 \in {0, 25, 50, 75}

\* C12 witness: a line of two pairs of 1 hour 5 minutes each, ended by its
\* newline, was shown as 2 hours 10 minutes and 2.25 hours (each pair
\* rounded by itself would give 2.00).
C12_Witness ==
    /\ TotalShown /\ ret = 1 /\ endFound = 1 /\ daySum = 130
    /\ \E i \in Printed("ACTUAL TOTAL TIME") : out[i].a = 2 /\ out[i].b = 10
    /\ \E j \in Printed("ROUNDED TOTAL TIME") : out[j].a = 225

\* The session has returned -1: main is about to look at it, or has gone
\* back to the head of its loop.
Aborted == pc \in {"mainRet", "main"} /\ ret = -1

C14_TotalsOnlyAfterAllPairsRead ==
    /\ TotalShown => ret = 1
    /\ (pc = "main" /\ ret = 1) => TotalShown

\* The session is scanning for target with clearBufferJunk and this step of
\* it stops at a newline, which it consumes.
ConsumesNewline(at, target) ==
    /\ pc = at /\ pc' # pc
    /\ clearBufferJunk(buf, closed, target).result = 1

\* C15 as claimed: when the scan for the '-' (after a start time that was
\* scanned in full) or the scan for the ',' consumes a newline, the session
\* goes to the test of its loop with endFound = 1, and from there it returns
\* 1 without another readTime.
C15_NewlineEndsSession ==
    /\ [][((ConsumesNewline("skipDash", "-") /\ lastRead.n = 3)
             \/ ConsumesNewline("skipComma", ","))
            => (pc' = "dayLoop" /\ endFound' = 1)]_vars
    /\ [][(pc = "dayLoop" /\ endFound = 1) => (pc' = "mainRet" /\ ret' = 1)]_vars

\* The stream s after its first line was dropped, newline included; nothing
\* is left when s holds no newline.
AfterLine(s) ==
    IF \E i \in 1..Len(s) : s[i] = NL
    THEN LET k == CHOOSE i \in 1..Len(s) :
                     s[i] = NL /\ \A j \in 1..(i - 1) : s[j] # NL
         IN  SubSeq(s, k + 1, Len(s))
    ELSE <<>>

\* C16: after a readTime that failed, the session consumes the unread
\* characters up to and including the first newline (up to the end of the
\* input when there is none) and no character after it, and returns -1;
\* nothing more is consumed until the readTime of the next session, which
\* so starts at the first character after that newline.
C16_ResyncToNextLine ==
    /\ [][(pc = "abort" /\ pc' # pc) =>
            /\ buf' = AfterLine(buf)
            /\ pc' = "mainRet" /\ ret' = -1
            /\ ((\A i \in 1..Len(buf) : buf[i] # NL) => closed)]_vars
    /\ [][((pc = "mainRet" /\ ret = -1) \/ pc \in {"main", "dayLoop"})
            => buf' = buf]_vars

\* C16 witness: a time scanned in full in the second pair of the first of
\* two waiting lines has failed and the session has returned -1: the rest
\* of that line is gone and the second line is there from its first
\* character.
C16_Witness ==
    /\ pc = "mainRet" /\ ret = -1 /\ daySum > 0
    /\ lastRead.n = 3 /\ lastRead.result = -1
    /\ buf = PairText(<<9, 0, "a">>, <<5, 0, "p">>) \o <<NL>>

\* Targets clearBufferJunk is tried with: the three the program passes and
\* two characters of the times.
ScanTargets == {"-", ",", NL, ":", "m"}

\* Position of the first character of s that is t or a newline; Len(s) + 1
\* when there is none.
FirstStop(s, t) ==
    IF \E i \in 1..Len(s) : s[i] \in {t, NL}
    THEN CHOOSE i \in 1..Len(s) :
             s[i] \in {t, NL} /\ \A j \in 1..(i - 1) : s[j] \notin {t, NL}
    ELSE Len(s) + 1

\* What C17 says clearBufferJunk(t) does on the unread input s: nothing yet
\* when s holds no stop and the input is still open.
ScanOutcome(s, isClosed, t) ==
    LET k == FirstStop(s, t)
    IN  IF k <= Len(s)
        THEN [status |-> "done", result |-> IF s[k] = NL THEN 1 ELSE 0, pos |-> k + 1]
        ELSE IF isClosed THEN [status |-> "done", result |-> -1, pos |-> k]
        ELSE [status |-> "block", result |-> 2, pos |-> k]

\* C17: on the unread input of every state and for every target,
\* clearBufferJunk consumes through the first character that is the target
\* or a newline, or to the end of the input, and returns 0 (target, not a
\* newline), 1 (newline) or -1 (end-of-input), never 2; the three calls of
\* the program leave the input after that character, and endFound is the
\* result of the call for ','.
C17_ScanToDelimiter ==
    /\ [](\A t \in ScanTargets :
            LET cb == clearBufferJunk(buf, closed, t)
                o == ScanOutcome(buf, closed, t)
            IN  /\ cb.status = o.status
                /\ cb.status = "done" =>
                      (cb.result = o.result /\ cb.pos = o.pos
                       /\ cb.result \in {-1, 0, 1}))
    /\ [][(pc = "skipComma" /\ pc' # pc) =>
            LET o == ScanOutcome(buf, closed, ",")
            IN  buf' = SubSeq(buf, o.pos, Len(buf)) /\ endFound' = o.result]_vars
    /\ [][(pc = "skipDash" /\ pc' # pc) =>
            buf' = SubSeq(buf, ScanOutcome(buf, closed, "-").pos, Len(buf))]_vars
    /\ [][(pc = "abort" /\ pc' # pc) =>
            buf' = SubSeq(buf, ScanOutcome(buf, closed, NL).pos, Len(buf))]_vars

\* C17 witness: after a pair, clearBufferJunk(',') has stopped at the comma
\* and returned 0, and the pair after the comma is still unread.
C17_Witness ==
    /\ pc = "dayLoop" /\ endFound = 0 /\ daySum > 0
    /\ buf = <<" ">> \o PairText(<<10, 20, "a">>, <<11, 5, "a">>) \o <<NL>>

\* C18: a pair that gets to the conversion has a start and an end that
\* differ; the difference of every pair added is between 1 minute and 23
\* hours 59 minutes and is shown as such; adding it makes the totals of the
\* session strictly larger.
C18_PositivePairs ==
    /\ [](pc \in {"convert", "accumulate"} =>
            ~(startHour = endHour /\ startMinute = endMinute
              /\ startMeridiem = endMeridiem))
    /\ [](pc = "skipComma" =>
            /\ hourDifference * 60 + minuteDifference \in 1..1439
            /\ hourDifference \in 0..23 /\ minuteDifference \in 0..59
            /\ out = <<Line("ACTUAL TIME", hourDifference, minuteDifference, "")>>
            /\ daySum >= hourDifference * 60 + minuteDifference)
    /\ [][pc = "accumulate" =>
            /\ daySum' > daySum
            /\ totalHours' * 60 + totalMinutes' > totalHours * 60 + totalMinutes]_vars

\* C18 witness: a pair of one minute, scanned in full, was added and shown
\* as 0 hours 1 minute.
C18_Witness ==
    /\ pc = "skipComma" /\ lastRead.n = 3
    /\ hourDifference = 0 /\ minuteDifference = 1 /\ daySum = 1
====
